---- MODULE Spec2Model ----
(***************************************************************************)
(* A model of amqp2http: the dispatch engine (amqp2http/dispatch.py) that  *)
(* turns one AMQP message and one HTTP response into a delivery outcome,   *)
(* and the topology builder (amqp2http/main.py) that turns the event       *)
(* mapping into AMQP systems, handler names and health checks.             *)
(***************************************************************************)
EXTENDS Integers, Sequences, FiniteSets, TLC

(***************************************************************************)
(* Bounds of the model.                                                    *)
(***************************************************************************)
\* Response status codes range over 0..MaxStatus.
MaxStatus == 999
\* Number of handler tasks (coroutines) the model knows of.
NumTasks == 2
\* How many time units late the event loop may resume a finished sleep.
MaxLate == 2
\* The event mapping holds at most MaxGroups exchanges and at most
\* MaxEndpoints endpoints in all.
MaxGroups == 2
MaxEndpoints == 2

(***************************************************************************)
(* Optional values: Python's None and a present value.                     *)
(***************************************************************************)
None == <<>>
Some(v) == <<v>>
Get(o) == o[1]

(***************************************************************************)
(* fastapi.status constants used by dispatch_amqp_message.                 *)
(***************************************************************************)
HTTP_200_OK == 200
HTTP_300_MULTIPLE_CHOICES == 300
HTTP_400_BAD_REQUEST == 400
HTTP_408_REQUEST_TIMEOUT == 408
HTTP_425_TOO_EARLY == 425
HTTP_429_TOO_MANY_REQUESTS == 429
HTTP_451_UNAVAILABLE_FOR_LEGAL_REASONS == 451
HTTP_500_INTERNAL_SERVER_ERROR == 500
HTTP_501_NOT_IMPLEMENTED == 501
HTTP_503_SERVICE_UNAVAILABLE == 503
HTTP_504_GATEWAY_TIMEOUT == 504
\* The argument of asyncio.sleep in the "going too fast" case.
SLEEP_SECONDS == 30

StatusCodes == 0..MaxStatus
Tasks == 1..NumTasks

(***************************************************************************)
(* str() of an int, as the f-string and str(value) format it: decimal      *)
(* digits, most significant first, "-" in front of a negative number.      *)
(***************************************************************************)
DecimalDigits == <<"0", "1", "2", "3", "4", "5", "6", "7", "8", "9">>

\* The digits in the wrong order: least significant first.
RECURSIVE FormatNatReversed(_)
FormatNatReversed(n) ==
    IF n < 10
        THEN DecimalDigits[n + 1]
        ELSE DecimalDigits[(n % 10) + 1] \o FormatNatReversed(n \div 10)

RECURSIVE FormatNat(_)
FormatNat(n) ==
    IF n < 10
        THEN DecimalDigits[n + 1]
        ELSE FormatNat(n \div 10) \o DecimalDigits[(n % 10) + 1]

FormatInt(n) == IF n < 0 THEN "-" \o FormatNat(0 - n) ELSE FormatNat(n)

(***************************************************************************)
(* The ways dispatch_amqp_message ends: a normal return, or one of the two *)
(* exceptions of fastramqpi.ramqp.utils, each carrying its message.        *)
(***************************************************************************)
Return == [kind |-> "Return", reason |-> ""]
RequeueMessage(reason) == [kind |-> "RequeueMessage", reason |-> reason]
RejectMessage(reason) == [kind |-> "RejectMessage", reason |-> reason]

\* case 408 | 425 | 429 | 503 | 504, with 451 added to it.
BackpressureCodesWith451 ==
    { HTTP_408_REQUEST_TIMEOUT, HTTP_425_TOO_EARLY, HTTP_429_TOO_MANY_REQUESTS,
      HTTP_451_UNAVAILABLE_FOR_LEGAL_REASONS,
      HTTP_503_SERVICE_UNAVAILABLE, HTTP_504_GATEWAY_TIMEOUT }

\* case 408 | 425 | 429 | 503 | 504
BackpressureCodes ==
    { HTTP_408_REQUEST_TIMEOUT, HTTP_425_TOO_EARLY, HTTP_429_TOO_MANY_REQUESTS,
      HTTP_503_SERVICE_UNAVAILABLE, HTTP_504_GATEWAY_TIMEOUT }

\* The guard of the first case with its upper bound included.
IsOkInclusive(status_code) ==
    HTTP_200_OK <= status_code /\ status_code <= HTTP_300_MULTIPLE_CHOICES

\* case _ if HTTP_200_OK <= response.status_code < HTTP_300_MULTIPLE_CHOICES
IsOk(status_code) ==
    HTTP_200_OK <= status_code /\ status_code < HTTP_300_MULTIPLE_CHOICES

\* The guard of the bad-request case with its lower bound excluded.
IsBadRequestExclusive(status_code) ==
    HTTP_400_BAD_REQUEST < status_code
        /\ status_code < HTTP_500_INTERNAL_SERVER_ERROR

\* case _ if HTTP_400_BAD_REQUEST <= response.status_code
\*              < HTTP_500_INTERNAL_SERVER_ERROR
IsBadRequest(status_code) ==
    HTTP_400_BAD_REQUEST <= status_code
        /\ status_code < HTTP_500_INTERNAL_SERVER_ERROR

\* The guard of the server-error case with its bound excluded.
IsServerErrorExclusive(status_code) ==
    status_code > HTTP_500_INTERNAL_SERVER_ERROR

\* case _ if response.status_code >= HTTP_500_INTERNAL_SERVER_ERROR
IsServerError(status_code) == status_code >= HTTP_500_INTERNAL_SERVER_ERROR

\* The match statement with the bad-request case moved in front of the
\* "going too fast" case.
MatchStatusCodeReordered(status_code) ==
    IF IsOk(status_code)
        THEN [sleep |-> 0, result |-> Return]
    ELSE IF status_code = HTTP_451_UNAVAILABLE_FOR_LEGAL_REASONS
        THEN [sleep |-> 0,
              result |-> RejectMessage("We legally cannot process this")]
    ELSE IF IsBadRequest(status_code)
        THEN [sleep |-> 0, result |-> RequeueMessage("We send a bad request")]
    ELSE IF status_code \in BackpressureCodes
        THEN [sleep |-> SLEEP_SECONDS,
              result |-> RequeueMessage("Was going too fast")]
    ELSE IF status_code = HTTP_501_NOT_IMPLEMENTED
        THEN [sleep |-> 0, result |-> RequeueMessage("Not implemented")]
    ELSE IF IsServerError(status_code)
        THEN [sleep |-> 0, result |-> RequeueMessage("The server done goofed")]
    ELSE [sleep |-> 0,
          result |-> RequeueMessage("Unexpected status-code: "
                                    \o FormatInt(status_code))]

(***************************************************************************)
(* The match statement over response.status_code: the cases are tried in   *)
(* order and the first that matches runs.  sleep is the argument of the    *)
(* asyncio.sleep awaited before the case ends (0: the case does not sleep).*)
(***************************************************************************)
MatchStatusCode(status_code) ==
    IF IsOk(status_code)
        THEN [sleep |-> 0, result |-> Return]
    ELSE IF status_code \in BackpressureCodes
        THEN [sleep |-> SLEEP_SECONDS,
              result |-> RequeueMessage("Was going too fast")]
    ELSE IF status_code = HTTP_451_UNAVAILABLE_FOR_LEGAL_REASONS
        THEN [sleep |-> 0,
              result |-> RejectMessage("We legally cannot process this")]
    ELSE IF IsBadRequest(status_code)
        THEN [sleep |-> 0, result |-> RequeueMessage("We send a bad request")]
    ELSE IF status_code = HTTP_501_NOT_IMPLEMENTED
        THEN [sleep |-> 0, result |-> RequeueMessage("Not implemented")]
    ELSE IF IsServerError(status_code)
        THEN [sleep |-> 0, result |-> RequeueMessage("The server done goofed")]
    ELSE [sleep |-> 0,
          result |-> RequeueMessage("Unexpected status-code: "
                                    \o FormatInt(status_code))]

(***************************************************************************)
(* The event mapping's data (amqp2http/config.py).  An EventEndpoint is a  *)
(* routing key and a URL; the model draws them from the example mapping's  *)
(* shape: one routing key served by several URLs, and another one.         *)
(***************************************************************************)
Urls ==
    { "http://ldap/mo2ldap/person71541",
      "http://ldap/mo2ldap/person113274",
      "http://ldap/ldap2mo/uuid" }

EventEndpoint(routing_key, url) == [routing_key |-> routing_key, url |-> url]

Endpoints ==
    { EventEndpoint("person", u) : u \in Urls }
        \cup { EventEndpoint("uuid", "http://ldap/ldap2mo/uuid") }

(***************************************************************************)
(* AMQP messages as the handler sees them.  The properties are optional    *)
(* (None when the publisher did not set them); a header value is an int or *)
(* a str.                                                                  *)
(***************************************************************************)
IntValue(i) == [type |-> "int", i |-> i, s |-> ""]
StrValue(s) == [type |-> "str", i |-> 0, s |-> s]

\* repr(value) of a header value: a str comes out in quotes.
StrQuoted(value) ==
    IF value.type = "int" THEN FormatInt(value.i) ELSE "'" \o value.s \o "'"

\* str(value) of a header value.
Str(value) == IF value.type = "int" THEN FormatInt(value.i) ELSE value.s

NoHeaders == [k \in {} |-> IntValue(0)]

Message(content_type, content_encoding, correlation_id, message_id, headers, body) ==
    [ content_type |-> content_type,
      content_encoding |-> content_encoding,
      correlation_id |-> correlation_id,
      message_id |-> message_id,
      headers |-> headers,
      body |-> body ]

\* The message tests/utils builds from a payload (only the message id is
\* set), and a message with every property and two headers.
Messages ==
    { Message(None, None, None, Some("m1"), NoHeaders, "{\"uuid\": 1}"),
      Message(Some("application/json"), Some(""), Some("c1"), None,
              [k \in {"retry", "origin"} |->
                  IF k = "retry" THEN IntValue(12) ELSE StrValue("mo")],
              "{}") }

\* Messages with every combination of absent, empty and non-empty
\* properties, and header tables of zero, one and two entries.
HeaderTables ==
    { NoHeaders,
      [k \in {"retry"} |-> IntValue(12)],
      [k \in {"origin"} |-> StrValue("")],
      [k \in {"retry", "origin"} |->
          IF k = "retry" THEN IntValue(12) ELSE StrValue("mo")] }

RequestMessages ==
    { Message(content_type, content_encoding, correlation_id, message_id,
              headers, "{}") :
        content_type \in { None, Some(""), Some("application/json") },
        content_encoding \in { None, Some(""), Some("gzip") },
        correlation_id \in { None, Some(""), Some("c1") },
        message_id \in { None, Some(""), Some("m1") },
        headers \in HeaderTables }

(***************************************************************************)
(* The request dispatch_amqp_message builds: potential_headers holds the   *)
(* five candidates and one X-AMQP-HEADER-{key} per message header; headers *)
(* keeps the entries whose value is not None.                              *)
(***************************************************************************)
CandidateHeaders ==
    { "Content-Type", "Content-Encoding", "X-Correlation-ID", "X-Message-ID",
      "X-Routing-Key" }

AmqpHeaderName(key) == "X-AMQP-HEADER-" \o key

potential_headers(endpoint, message) ==
    [ h \in CandidateHeaders
            \cup { AmqpHeaderName(key) : key \in DOMAIN message.headers } |->
        IF \E key \in DOMAIN message.headers : h = AmqpHeaderName(key)
            THEN Some(Str(message.headers[
                     CHOOSE key \in DOMAIN message.headers : h = AmqpHeaderName(key)]))
        ELSE IF h = "Content-Type" THEN message.content_type
        ELSE IF h = "Content-Encoding" THEN message.content_encoding
        ELSE IF h = "X-Correlation-ID" THEN message.correlation_id
        ELSE IF h = "X-Message-ID" THEN message.message_id
        ELSE Some(endpoint.routing_key) ]

\* The comprehension with "if value" for "if value is not None": an empty
\* value is dropped as well.
BuildHeadersTruthy(endpoint, message) ==
    LET potential == potential_headers(endpoint, message)
    IN  [ h \in { k \in DOMAIN potential :
                    potential[k] # None /\ potential[k] # Some("") } |->
            Get(potential[h]) ]

\* headers = {key: value for key, value in potential_headers.items()
\*            if value is not None}
BuildHeaders(endpoint, message) ==
    LET potential == potential_headers(endpoint, message)
    IN  [ h \in { k \in DOMAIN potential : potential[k] # None } |->
            Get(potential[h]) ]

\* client.post(endpoint.url, content=message.body, headers=headers)
PostRequest(endpoint, message) ==
    [ method |-> "POST",
      url |-> endpoint.url,
      content |-> message.body,
      headers |-> BuildHeaders(endpoint, message) ]

(***************************************************************************)
(* The event mapping (amqp2http/config.py): integrations by name, in each  *)
(* the exchanges by name, in each the list of endpoints.  A dict is a      *)
(* sequence of entries with distinct keys, in iteration order.  The names  *)
(* are non-empty strings and may contain "_".                              *)
(***************************************************************************)
IntegrationNames == { "ldap", "ldap_os2mo" }
ExchangeNames == { "ldap", "os2mo_ldap" }

\* The names of an IntegrationMapping.exchanges with at most budget keys
\* out of names, in iteration order.
RECURSIVE ExchangeKeys(_, _)
ExchangeKeys(names, budget) ==
    { <<>> } \cup
        IF budget = 0 THEN {}
        ELSE UNION { { <<e>> \o rest : rest \in ExchangeKeys(names \ {e}, budget - 1) } :
                     e \in names }

\* The names of an EventMapping.integrations and of the exchanges in each,
\* with at most budget exchanges in all.
RECURSIVE IntegrationKeys(_, _)
IntegrationKeys(names, budget) ==
    { <<>> } \cup
        UNION { { <<[name |-> i, exchanges |-> xs]>> \o rest :
                    rest \in IntegrationKeys(names \ {i}, budget - Len(xs)) } :
                i \in names, xs \in ExchangeKeys(ExchangeNames, budget) }

\* ExchangeMapping.queues: the lists of at most budget endpoints.
QueueLists(budget) == UNION { [1..n -> Endpoints] : n \in 0..budget }

\* The queue lists of n exchanges, with at most budget endpoints in all.
RECURSIVE QueuesOf(_, _)
QueuesOf(n, budget) ==
    IF n = 0 THEN { <<>> }
    ELSE UNION { { <<q>> \o rest : rest \in QueuesOf(n - 1, budget - Len(q)) } :
                 q \in QueueLists(budget) }

\* The integrations of keys, their exchanges given the queue lists of
\* queues in order.
RECURSIVE WithQueues(_, _)
WithQueues(keys, queues) ==
    IF keys = <<>> THEN <<>>
    ELSE LET iconf == Head(keys)
             n == Len(iconf.exchanges)
         IN  << [ name |-> iconf.name,
                  exchanges |-> [ k \in 1..n |->
                      [name |-> iconf.exchanges[k], queues |-> queues[k]] ] ] >>
             \o WithQueues(Tail(keys), SubSeq(queues, n + 1, Len(queues)))

RECURSIVE CountExchanges(_)
CountExchanges(keys) ==
    IF keys = <<>> THEN 0
    ELSE Len(Head(keys).exchanges) + CountExchanges(Tail(keys))

\* The values of Settings().event_mapping.integrations within the bounds.
EventMappings ==
    UNION { { WithQueues(keys, queues) :
                queues \in QueuesOf(CountExchanges(keys), MaxEndpoints) } :
            keys \in IntegrationKeys(IntegrationNames, MaxGroups) }

\* The (integration, upstream_exchange, queues) triples in the order the
\* nested loops of create_listeners visit them.
RECURSIVE Groups(_)
Groups(integrations) ==
    IF integrations = <<>> THEN <<>>
    ELSE LET iconf == Head(integrations)
         IN  [ k \in 1..Len(iconf.exchanges) |->
                 [ integration |-> iconf.name,
                   upstream_exchange |-> iconf.exchanges[k].name,
                   queues |-> iconf.exchanges[k].queues ] ]
             \o Groups(Tail(integrations))

(***************************************************************************)
(* hashlib.sha256(url.encode("utf-8")).hexdigest() of the URLs of the      *)
(* model: the SHA-256 digests of their bytes.                              *)
(***************************************************************************)
sha256_hexdigest(url) ==
    CASE url = "http://ldap/mo2ldap/person71541" ->
            "b2e7f1eb3dea4afa5eb127cfe2082c78ddea768890cd7d1258948dda50cf9856"
      [] url = "http://ldap/mo2ldap/person113274" ->
            "b2e7f1eb574b2882db4e43ce5676dc2a60f45b94922524eaf9b911229fa1fea2"
      [] url = "http://ldap/ldap2mo/uuid" ->
            "b56c6b42eaa0445ea5803019b2e38b18ffcf863bcdaeef588aaa427377868135"

\* The length of the slice [:8] of the digest.
HASH_LENGTH == 8
\* The priority of the AMQP systems' lifespan managers.
LIFESPAN_PRIORITY == 1100

\* url_hash = sha256(event.url.encode("utf-8")).hexdigest()[:8]
url_hash(event) == SubSeq(sha256_hexdigest(event.url), 1, HASH_LENGTH)

\* mapping_prefix = f"{integration}_{upstream_exchange}"
mapping_prefix(integration, upstream_exchange) ==
    integration \o "_" \o upstream_exchange

\* handler_name = f"{mapping_prefix}_{event.routing_key}_{url_hash}"
handler_name(prefix, event) ==
    prefix \o "_" \o event.routing_key \o "_" \o url_hash(event)

\* The registration a closure over the loop variable would make: every
\* callable sees the endpoint the loop ended on.
RegisterAllLateBound(prefix, events) ==
    [ k \in 1..Len(events) |->
        [ routing_key |-> events[k].routing_key,
          callable |-> [ func |-> "dispatch_amqp_message",
                         args |-> events[Len(events)],
                         name |-> handler_name(prefix, events[k]) ] ] ]

\* The router after the loop over events: one registration per event, in
\* order, of partial(dispatch_amqp_message, event) renamed to handler_name
\* under event.routing_key.  Each partial is an object of its own.
RegisterAll(prefix, events) ==
    [ k \in 1..Len(events) |->
        [ routing_key |-> events[k].routing_key,
          callable |-> [ func |-> "dispatch_amqp_message",
                         args |-> events[k],
                         name |-> handler_name(prefix, events[k]) ] ] ]

\* create_amqpsystem; id tells the AMQPSystem objects apart.
create_amqpsystem(id, integration, upstream_exchange, events) ==
    LET prefix == mapping_prefix(integration, upstream_exchange)
    IN  [ id |-> id,
          settings |-> [ exchange |-> prefix,
                         upstream_exchange |-> upstream_exchange,
                         queue_prefix |-> prefix ],
          router |-> RegisterAll(prefix, events) ]

\* dict[key] = value
DictSet(dict, key, value) ==
    [ k \in DOMAIN dict \cup {key} |-> IF k = key THEN value ELSE dict[k] ]

EmptyDict == [ k \in {} |-> {} ]

(***************************************************************************)
(* State of the dispatch engine: one coroutine per delivered message.      *)
(***************************************************************************)
VARIABLES
    pc,         \* task -> "idle", "received", "dispatching", "sleeping", "done"
    endpoint,   \* task -> the EventEndpoint the handler is bound to, or None
    message,    \* task -> the message delivered to the handler, or None
    requests,   \* task -> the sequence of HTTP requests the task has sent
    response,   \* task -> the status code of the HTTP response, or None
    outcome,    \* task -> how the coroutine ended, or None
    slept,      \* task -> time units spent in asyncio.sleep
    handler     \* task -> the registration whose callable runs the task, or
                \* None when the task was not started through a router

dispatch_vars ==
    <<pc, endpoint, message, requests, response, outcome, slept, handler>>

(***************************************************************************)
(* State of the topology builder (create_app and what it calls).           *)
(***************************************************************************)
VARIABLES
    build,              \* "start", "listeners", "built", "failed"
    settings,           \* Settings().event_mapping.integrations, or None
    visited,            \* iterations of create_listeners' loops done
    amqpsystems,        \* the local dict of create_listeners
    lifespan_managers,  \* FastRAMQPI: added lifespan managers, in order
    healthchecks,       \* FastRAMQPI: health check name -> AMQP system probed
    context,            \* FastRAMQPI: the context entries added
    app                 \* what create_app returned, or None

topology_vars ==
    <<build, settings, visited, amqpsystems, lifespan_managers, healthchecks,
      context, app>>

vars == <<dispatch_vars, topology_vars>>

\* Nothing of the application has been created.
TopologyInit ==
    /\ build = "start"
    /\ settings = None
    /\ visited = 0
    /\ amqpsystems = EmptyDict
    /\ lifespan_managers = <<>>
    /\ healthchecks = EmptyDict
    /\ context = [settings |-> None, amqpsystems |-> None]
    /\ app = None

\* One message has been delivered to the handler of task 1; the bus has
\* nothing for the other tasks.
Init ==
    /\ TopologyInit
    /\ \E e \in Endpoints, m \in Messages :
        /\ endpoint = [t \in Tasks |-> IF t = 1 THEN Some(e) ELSE None]
        /\ message = [t \in Tasks |-> IF t = 1 THEN Some(m) ELSE None]
    /\ pc = [t \in Tasks |-> IF t = 1 THEN "received" ELSE "idle"]
    /\ requests = [t \in Tasks |-> <<>>]
    /\ response = [t \in Tasks |-> None]
    /\ outcome = [t \in Tasks |-> None]
    /\ slept = [t \in Tasks |-> 0]
    /\ handler = [t \in Tasks |-> None]

\* The sleep holds the event loop (time.sleep in place of asyncio.sleep): no
\* request is sent while a coroutine sleeps.
PostBlocked(t) ==
    /\ pc[t] = "received"
    /\ \A u \in Tasks : pc[u] # "sleeping"
    /\ requests' = [requests EXCEPT
            ![t] = Append(@, PostRequest(Get(endpoint[t]), Get(message[t])))]
    /\ pc' = [pc EXCEPT ![t] = "dispatching"]
    /\ UNCHANGED <<endpoint, message, response, outcome, slept, handler,
                   topology_vars>>

\* The request is sent a second time before the response is looked at.
PostTwice(t) ==
    /\ pc[t] = "received"
    /\ requests' = [requests EXCEPT
            ![t] = Append(Append(@, PostRequest(Get(endpoint[t]), Get(message[t]))),
                          PostRequest(Get(endpoint[t]), Get(message[t])))]
    /\ pc' = [pc EXCEPT ![t] = "dispatching"]
    /\ UNCHANGED <<endpoint, message, response, outcome, slept, handler,
                   topology_vars>>

\* dispatch_amqp_message up to "await client.post": build the headers and
\* send the request.
Post(t) ==
    /\ pc[t] = "received"
    /\ requests' = [requests EXCEPT
            ![t] = Append(@, PostRequest(Get(endpoint[t]), Get(message[t])))]
    /\ pc' = [pc EXCEPT ![t] = "dispatching"]
    /\ UNCHANGED <<endpoint, message, response, outcome, slept, handler,
                   topology_vars>>

\* The response arrives and the match statement runs up to its return, its
\* raise, or the "await asyncio.sleep".
Respond(t, status_code) ==
    /\ pc[t] = "dispatching"
    /\ response' = [response EXCEPT ![t] = Some(status_code)]
    /\ LET case == MatchStatusCode(status_code)
       IN  IF case.sleep > 0
               THEN /\ pc' = [pc EXCEPT ![t] = "sleeping"]
                    /\ UNCHANGED outcome
               ELSE /\ pc' = [pc EXCEPT ![t] = "done"]
                    /\ outcome' = [outcome EXCEPT ![t] = Some(case.result)]
    /\ UNCHANGED <<endpoint, message, requests, slept, handler, topology_vars>>

Sleeping == { t \in Tasks : pc[t] = "sleeping" }

SleepOf(t) == MatchStatusCode(Get(response[t])).sleep

\* One time unit passes for every sleeping coroutine.  The event loop
\* resumes a coroutine no earlier than its delay, and at most MaxLate late.
Tick ==
    /\ Sleeping # {}
    /\ \A t \in Sleeping : slept[t] < SleepOf(t) + MaxLate
    /\ slept' = [t \in Tasks |-> IF t \in Sleeping THEN slept[t] + 1 ELSE slept[t]]
    /\ UNCHANGED <<pc, endpoint, message, requests, response, outcome, handler,
                   topology_vars>>

\* The case raises without waiting for asyncio.sleep to return.
WakeEarly(t) ==
    /\ pc[t] = "sleeping"
    /\ pc' = [pc EXCEPT ![t] = "done"]
    /\ outcome' = [outcome EXCEPT
            ![t] = Some(MatchStatusCode(Get(response[t])).result)]
    /\ UNCHANGED <<endpoint, message, requests, response, slept, handler,
                   topology_vars>>

\* asyncio.sleep returns and the case raises.
Wake(t) ==
    /\ pc[t] = "sleeping"
    /\ slept[t] >= SleepOf(t)
    /\ pc' = [pc EXCEPT ![t] = "done"]
    /\ outcome' = [outcome EXCEPT
            ![t] = Some(MatchStatusCode(Get(response[t])).result)]
    /\ UNCHANGED <<endpoint, message, requests, response, slept, handler,
                   topology_vars>>

Next ==
    \/ \E t \in Tasks : Post(t)
    \/ \E t \in Tasks, status_code \in StatusCodes : Respond(t, status_code)
    \/ Tick
    \/ \E t \in Tasks : Wake(t)

Spec == Init /\ [][Next]_vars

(***************************************************************************)
(* The request alone: any message of RequestMessages is delivered to the   *)
(* handler of task 1, which builds and sends its request.                  *)
(***************************************************************************)
InitRequest ==
    /\ TopologyInit
    /\ \E e \in Endpoints, m \in RequestMessages :
        /\ endpoint = [t \in Tasks |-> IF t = 1 THEN Some(e) ELSE None]
        /\ message = [t \in Tasks |-> IF t = 1 THEN Some(m) ELSE None]
    /\ pc = [t \in Tasks |-> IF t = 1 THEN "received" ELSE "idle"]
    /\ requests = [t \in Tasks |-> <<>>]
    /\ response = [t \in Tasks |-> None]
    /\ outcome = [t \in Tasks |-> None]
    /\ slept = [t \in Tasks |-> 0]
    /\ handler = [t \in Tasks |-> None]

NextRequest == \E t \in Tasks : Post(t)

SpecRequest == InitRequest /\ [][NextRequest]_vars

(***************************************************************************)
(* The topology builder.                                                   *)
(***************************************************************************)
\* No message is delivered while the application is built.
InitTopology ==
    /\ TopologyInit
    /\ pc = [t \in Tasks |-> "idle"]
    /\ endpoint = [t \in Tasks |-> None]
    /\ message = [t \in Tasks |-> None]
    /\ requests = [t \in Tasks |-> <<>>]
    /\ response = [t \in Tasks |-> None]
    /\ outcome = [t \in Tasks |-> None]
    /\ slept = [t \in Tasks |-> 0]
    /\ handler = [t \in Tasks |-> None]

\* create_fastramqpi up to the call of create_listeners: the settings are
\* parsed, FastRAMQPI is constructed (with its own "AMQP" health check, of
\* the AMQP system 0) and the settings are added to the context.
CreateFastramqpi ==
    /\ build = "start"
    /\ \E event_mapping \in EventMappings :
        /\ settings' = Some(event_mapping)
        /\ context' = [context EXCEPT !.settings = Some(event_mapping)]
    /\ healthchecks' = DictSet(EmptyDict, "AMQP", 0)
    /\ build' = "listeners"
    /\ UNCHANGED <<visited, amqpsystems, lifespan_managers, app, dispatch_vars>>

\* One iteration of the inner loop of create_listeners.
CreateListener ==
    /\ build = "listeners"
    /\ visited < Len(Groups(Get(settings)))
    /\ LET group == Groups(Get(settings))[visited + 1]
           integration == group.integration
           upstream_exchange == group.upstream_exchange
           amqpsystem == create_amqpsystem(visited + 1, integration,
                                           upstream_exchange, group.queues)
           healthcheck_name == "AMQP_" \o integration \o "_" \o upstream_exchange
           inner == IF integration \in DOMAIN amqpsystems
                        THEN amqpsystems[integration] ELSE EmptyDict
       IN  /\ lifespan_managers' =
                Append(lifespan_managers,
                       [manager |-> amqpsystem.id, priority |-> LIFESPAN_PRIORITY])
           /\ healthchecks' = DictSet(healthchecks, healthcheck_name, amqpsystem.id)
           /\ amqpsystems' =
                DictSet(amqpsystems, integration,
                        DictSet(inner, upstream_exchange, amqpsystem))
    /\ visited' = visited + 1
    /\ UNCHANGED <<build, settings, context, app, dispatch_vars>>

\* The construction of the next AMQP system is refused and the loop goes on
\* with the group after it, as if the exception were caught in the loop.
CreateListenerSkips ==
    /\ build = "listeners"
    /\ visited < Len(Groups(Get(settings)))
    /\ visited' = visited + 1
    /\ UNCHANGED <<build, settings, amqpsystems, lifespan_managers,
                   healthchecks, context, app, dispatch_vars>>

\* The construction of the next AMQP system raises (the router or the
\* connection settings refuse their arguments).  Nothing in
\* create_amqpsystem, create_listeners, create_fastramqpi or create_app
\* catches the exception: create_app ends with it and returns nothing.
CreateListenerRaises ==
    /\ build = "listeners"
    /\ visited < Len(Groups(Get(settings)))
    /\ build' = "failed"
    /\ UNCHANGED <<settings, visited, amqpsystems, lifespan_managers,
                   healthchecks, context, app, dispatch_vars>>

\* The loops are over: create_listeners adds the AMQP systems to the
\* context, create_fastramqpi returns and create_app returns the app.
CreateApp ==
    /\ build = "listeners"
    /\ visited = Len(Groups(Get(settings)))
    /\ context' = [context EXCEPT !.amqpsystems = Some(amqpsystems)]
    /\ app' = Some("amqp2http")
    /\ build' = "built"
    /\ UNCHANGED <<settings, visited, amqpsystems, lifespan_managers,
                   healthchecks, dispatch_vars>>

NextTopology ==
    \/ CreateFastramqpi
    \/ CreateListener
    \/ CreateListenerRaises
    \/ CreateApp

SpecTopology == InitTopology /\ [][NextTopology]_vars

(***************************************************************************)
(* Several dispatches in flight: every task has received a message, and    *)
(* the responses carry one status of each kind of outcome.                 *)
(***************************************************************************)
SampleCodes == { HTTP_200_OK, HTTP_429_TOO_MANY_REQUESTS,
                 HTTP_451_UNAVAILABLE_FOR_LEGAL_REASONS }

InitConcurrent ==
    /\ TopologyInit
    /\ \E e \in Endpoints, m \in Messages :
        /\ endpoint = [t \in Tasks |-> Some(e)]
        /\ message = [t \in Tasks |-> Some(m)]
    /\ pc = [t \in Tasks |-> "received"]
    /\ requests = [t \in Tasks |-> <<>>]
    /\ response = [t \in Tasks |-> None]
    /\ outcome = [t \in Tasks |-> None]
    /\ slept = [t \in Tasks |-> 0]
    /\ handler = [t \in Tasks |-> None]

NextConcurrent ==
    \/ \E t \in Tasks : Post(t)
    \/ \E t \in Tasks, status_code \in SampleCodes : Respond(t, status_code)
    \/ Tick
    \/ \E t \in Tasks : Wake(t)

SpecConcurrent == InitConcurrent /\ [][NextConcurrent]_vars

(***************************************************************************)
(* The bridge at work: once the application is built, the bus delivers a   *)
(* message to one of the registered handlers, which dispatches it.         *)
(***************************************************************************)
\* functools.partial(func, event)(message) is func(event, message).
Invoke(callable, m) == [ endpoint |-> callable.args, message |-> m ]

\* The AMQP system of a group routes a message with the routing key of its
\* k-th registration to the callable registered there.  One delivery is
\* followed: it starts the first task while no handler is running.
Deliver(t) ==
    /\ build = "built"
    /\ \A u \in Tasks : pc[u] = "idle" /\ u >= t
    /\ \E integration \in DOMAIN amqpsystems :
        \E upstream_exchange \in DOMAIN amqpsystems[integration] :
            LET router == amqpsystems[integration][upstream_exchange].router
            IN  \E k \in 1..Len(router), m \in Messages :
                    LET call == Invoke(router[k].callable, m)
                    IN  /\ pc' = [pc EXCEPT ![t] = "received"]
                        /\ endpoint' = [endpoint EXCEPT ![t] = Some(call.endpoint)]
                        /\ message' = [message EXCEPT ![t] = Some(call.message)]
                        /\ handler' = [handler EXCEPT ![t] =
                                Some([ integration |-> integration,
                                       upstream_exchange |-> upstream_exchange,
                                       index |-> k,
                                       delivered |-> m ])]
    /\ UNCHANGED <<requests, response, outcome, slept, topology_vars>>

NextBridge ==
    \/ NextTopology
    \/ \E t \in Tasks : Deliver(t)
    \/ \E t \in Tasks : Post(t)

SpecBridge == InitTopology /\ [][NextBridge]_vars

(***************************************************************************)
(* Properties of the dispatch engine.                                      *)
(***************************************************************************)
\* The outcomes in the words of the design: a normal return acknowledges,
\* RequeueMessage requeues, RejectMessage rejects.
Ack == [kind |-> "Return", reason |-> ""]
Requeue(reason) == [kind |-> "RequeueMessage", reason |-> reason]
Reject(reason) == [kind |-> "RejectMessage", reason |-> reason]

Done == { t \in Tasks : pc[t] = "done" }
Answered == { t \in Tasks : response[t] # None }
StatusOf(t) == Get(response[t])

\* The seven rules of the classification table, in order.
RuleMatches(i, status) ==
    CASE i = 1 -> 200 <= status /\ status < 300
      [] i = 2 -> status \in {408, 425, 429, 503, 504}
      [] i = 3 -> status = 451
      [] i = 4 -> 400 <= status /\ status < 500
      [] i = 5 -> status = 501
      [] i = 6 -> status >= 500
      [] i = 7 -> TRUE

RuleOutcome(i, status) ==
    CASE i = 1 -> Ack
      [] i = 2 -> Requeue("Was going too fast")
      [] i = 3 -> Reject("We legally cannot process this")
      [] i = 4 -> Requeue("We send a bad request")
      [] i = 5 -> Requeue("Not implemented")
      [] i = 6 -> Requeue("The server done goofed")
      [] i = 7 -> Requeue("Unexpected status-code: " \o ToString(status))

FirstMatchingRule(status) ==
    CHOOSE i \in 1..7 :
        RuleMatches(i, status) /\ \A j \in 1..(i - 1) : ~RuleMatches(j, status)

C2_SleepBeforeRequeue ==
    /\ [](\A t \in Answered :
            StatusOf(t) \in {408, 425, 429, 503, 504} =>
                /\ slept[t] < 30 => outcome[t] = None
                /\ outcome[t] # None =>
                    outcome[t] = Some(Requeue("Was going too fast")))
    /\ [][\A t \in Tasks :
            (/\ outcome[t] = None
             /\ outcome'[t] # None
             /\ response'[t] # None
             /\ Get(response'[t]) \in {408, 425, 429, 503, 504})
                => pc[t] = "sleeping" /\ slept[t] >= 30 /\ slept'[t] = slept[t]]_vars

\* A dispatch answered 429 has slept and raised the requeue.
C2_Witness ==
    \E t \in Done :
        StatusOf(t) = 429 /\ slept[t] >= 30
            /\ outcome[t] = Some(Requeue("Was going too fast"))

\* C3: a dispatch returns normally exactly when the status is in [200, 300),
\* then without having slept; any other status ends in a RequeueMessage or a
\* RejectMessage.
C3_AckIffSuccess ==
    /\ \A t \in Done :
        /\ outcome[t] = Some(Ack) <=> (200 <= StatusOf(t) /\ StatusOf(t) < 300)
        /\ outcome[t] # Some(Ack) =>
            Get(outcome[t]).kind \in {"RequeueMessage", "RejectMessage"}
    /\ \A t \in Answered :
        (200 <= StatusOf(t) /\ StatusOf(t) < 300) => pc[t] = "done" /\ slept[t] = 0

\* A dispatch answered 299, the last status of the range, has returned.
C3_Witness ==
    \E t \in Done :
        /\ StatusOf(t) = 299
        /\ outcome[t] = Some(Ack)
        /\ slept[t] = 0

\* C4: a dispatch answered 451 ends in Reject("We legally cannot process
\* this") at once: it never sleeps.
C4_LegalReject ==
    \A t \in Answered :
        StatusOf(t) = 451 =>
            /\ pc[t] = "done"
            /\ slept[t] = 0
            /\ outcome[t] = Some(Reject("We legally cannot process this"))

\* A dispatch answered 451 has finished.
C4_Witness ==
    \E t \in Done : StatusOf(t) = 451 /\ Get(outcome[t]).kind = "RejectMessage"

C6_Original ==
    \A t \in Done :
        (StatusOf(t) >= 500 /\ StatusOf(t) # 501) =>
            outcome[t] = Some(Requeue("The server done goofed"))

\* C6: every status >= 500 other than 501 and the "going too fast" codes
\* 503 and 504 ends in Requeue("The server done goofed"), without a sleep.
C6_ServerError ==
    \A t \in Answered :
        (StatusOf(t) >= 500 /\ StatusOf(t) \notin {501, 503, 504}) =>
            /\ pc[t] = "done"
            /\ slept[t] = 0
            /\ outcome[t] = Some(Requeue("The server done goofed"))

\* A dispatch answered 500, the first status of the range, has finished.
C6_Witness ==
    \E t \in Done :
        StatusOf(t) = 500 /\ outcome[t] = Some(Requeue("The server done goofed"))

\* C7: a status below 200 or in [300, 400) ends, without a sleep, in a
\* Requeue whose reason is "Unexpected status-code: " followed by the
\* decimal form of the status received.
C7_UnexpectedStatus ==
    \A t \in Answered :
        (StatusOf(t) < 200 \/ (300 <= StatusOf(t) /\ StatusOf(t) < 400)) =>
            /\ pc[t] = "done"
            /\ slept[t] = 0
            /\ outcome[t] =
                Some(Requeue("Unexpected status-code: " \o ToString(StatusOf(t))))

\* A dispatch answered 304 has finished with the status in its reason.
C7_Witness ==
    \E t \in Done :
        StatusOf(t) = 304
            /\ outcome[t] = Some(Requeue("Unexpected status-code: 304"))

(***************************************************************************)
(* Properties of the topology builder.                                     *)
(***************************************************************************)
\* The AMQP systems create_listeners has constructed so far.
Constructed ==
    { amqpsystems[i][e] : <<i, e>> \in
        { p \in (DOMAIN amqpsystems) \X ExchangeNames :
            p[2] \in DOMAIN amqpsystems[p[1]] } }

\* The groups of the mapping whose loop iteration has run.
VisitedGroups ==
    IF settings = None THEN {}
    ELSE { Groups(Get(settings))[k] : k \in 1..visited }

\* Two entries of a queue list that share the routing key and the short
\* hash of the URL.
HasDuplicate(queues) ==
    \E a, b \in 1..Len(queues) :
        /\ a # b
        /\ queues[a].routing_key = queues[b].routing_key
        /\ url_hash(queues[a]) = url_hash(queues[b])

\* C8: a queue list with two endpoints of the same routing key and the same
\* short hash is reported as a configuration error when the topology is
\* built: no loop iteration completes for such a group, and the application
\* is never returned for a mapping that holds one.
C8_DuplicateReported ==
    /\ \A g \in VisitedGroups : ~HasDuplicate(g.queues)
    /\ build = "built" =>
        \A k \in 1..Len(Groups(Get(settings))) :
            ~HasDuplicate(Groups(Get(settings))[k].queues)

\* C9: two endpoints of one group with the same routing key and different
\* URLs are registered under different handler names.
C9_DistinctHandlerNames ==
    \A amqpsystem \in Constructed :
        \A a, b \in 1..Len(amqpsystem.router) :
            (/\ amqpsystem.router[a].routing_key = amqpsystem.router[b].routing_key
             /\ amqpsystem.router[a].callable.args.url
                    # amqpsystem.router[b].callable.args.url)
                => amqpsystem.router[a].callable.name
                    # amqpsystem.router[b].callable.name

\* C10: two different (integration, exchange) pairs of the mapping get
\* AMQP systems with different exchange and queue_prefix settings.
C10_UniqueGroupIdentity ==
    \A g, h \in VisitedGroups :
        <<g.integration, g.upstream_exchange>> # <<h.integration, h.upstream_exchange>>
            => LET a == amqpsystems[g.integration][g.upstream_exchange].settings
                   b == amqpsystems[h.integration][h.upstream_exchange].settings
               IN  a.exchange # b.exchange /\ a.queue_prefix # b.queue_prefix

(***************************************************************************)
(* Properties of the request.                                              *)
(***************************************************************************)
\* The tasks that have sent a request, and the last request of each.
Posted == { t \in Tasks : requests[t] # <<>> }
RequestOf(t) == requests[t][Len(requests[t])]
SentHeaders(t) == RequestOf(t).headers

\* The message of t has no correlation id, content type or content encoding.
LacksOptional(t) ==
    /\ Get(message[t]).correlation_id = <<>>
    /\ Get(message[t]).content_type = <<>>
    /\ Get(message[t]).content_encoding = <<>>

\* The string form of a header value, by TLC's own formatting of numbers.
StringForm(value) == IF value.type = "int" THEN ToString(value.i) ELSE value.s

\* The request of t has exactly one X-AMQP-HEADER-{key} header per entry of
\* the message's header table, with the string form of the entry's value,
\* and no other header besides the five candidates.
OneHeaderPerEntry(t) ==
    LET table == Get(message[t]).headers
        extra == DOMAIN SentHeaders(t) \ CandidateHeaders
    IN  /\ extra = { "X-AMQP-HEADER-" \o key : key \in DOMAIN table }
        /\ Cardinality(extra) = Cardinality(DOMAIN table)
        /\ \A key \in DOMAIN table :
            SentHeaders(t)["X-AMQP-HEADER-" \o key] = StringForm(table[key])

\* C11 as stated: a request built from a message without correlation id,
\* content type and content encoding has none of Content-Type,
\* Content-Encoding and X-Correlation-ID, always has X-Message-ID and
\* X-Routing-Key, and has one X-AMQP-HEADER-{key} per header table entry.
C11_Original ==
    \A t \in Posted :
        LacksOptional(t) =>
            /\ DOMAIN SentHeaders(t)
                \cap {"Content-Type", "Content-Encoding", "X-Correlation-ID"} = {}
            /\ "X-Message-ID" \in DOMAIN SentHeaders(t)
            /\ "X-Routing-Key" \in DOMAIN SentHeaders(t)
            /\ OneHeaderPerEntry(t)

\* C11: such a request has none of Content-Type, Content-Encoding and
\* X-Correlation-ID, has X-Message-ID exactly when the message has a message
\* id (then with that id), always has X-Routing-Key with the endpoint's
\* routing key, and has one X-AMQP-HEADER-{key} per header table entry.
C11_HeaderOmission ==
    \A t \in Posted :
        LacksOptional(t) =>
            /\ DOMAIN SentHeaders(t)
                \cap {"Content-Type", "Content-Encoding", "X-Correlation-ID"} = {}
            /\ "X-Message-ID" \in DOMAIN SentHeaders(t)
                <=> Get(message[t]).message_id # <<>>
            /\ "X-Message-ID" \in DOMAIN SentHeaders(t)
                => SentHeaders(t)["X-Message-ID"] = Get(message[t]).message_id[1]
            /\ "X-Routing-Key" \in DOMAIN SentHeaders(t)
            /\ SentHeaders(t)["X-Routing-Key"] = Get(endpoint[t]).routing_key
            /\ OneHeaderPerEntry(t)

\* A request was sent for a message that has a message id and two headers
\* but none of the three optional properties.
C11_Witness ==
    \E t \in Posted :
        /\ LacksOptional(t)
        /\ Get(message[t]).message_id = <<"m1">>
        /\ DOMAIN Get(message[t]).headers = {"retry", "origin"}
        /\ DOMAIN SentHeaders(t) =
            { "X-Message-ID", "X-Routing-Key",
              "X-AMQP-HEADER-retry", "X-AMQP-HEADER-origin" }

\* The value a candidate header is taken from: a message property, or the
\* endpoint's routing key, which is never absent.
SourceOf(t, header) ==
    CASE header = "Content-Type" -> Get(message[t]).content_type
      [] header = "Content-Encoding" -> Get(message[t]).content_encoding
      [] header = "X-Correlation-ID" -> Get(message[t]).correlation_id
      [] header = "X-Message-ID" -> Get(message[t]).message_id
      [] header = "X-Routing-Key" -> <<Get(endpoint[t]).routing_key>>

\* C12: each of the five candidate headers is in the request exactly when
\* its source value is not absent, and then carries that value, the empty
\* string included.
C12_PresentIffNotNone ==
    \A t \in Posted :
        \A header \in { "Content-Type", "Content-Encoding", "X-Correlation-ID",
                        "X-Message-ID", "X-Routing-Key" } :
            /\ header \in DOMAIN SentHeaders(t) <=> SourceOf(t, header) # <<>>
            /\ header \in DOMAIN SentHeaders(t)
                => SentHeaders(t)[header] = SourceOf(t, header)[1]

\* A request was sent with an empty Content-Type and without
\* Content-Encoding, for a message with the one empty and the other absent.
C12_Witness ==
    \E t \in Posted :
        /\ Get(message[t]).content_type = <<"">>
        /\ Get(message[t]).content_encoding = <<>>
        /\ "Content-Type" \in DOMAIN SentHeaders(t)
        /\ SentHeaders(t)["Content-Type"] = ""
        /\ "Content-Encoding" \notin DOMAIN SentHeaders(t)

\* The name of the health check of a group, as the design gives it.
HealthName(g) == "AMQP_" \o g.integration \o "_" \o g.upstream_exchange

\* The groups of the whole mapping.
AllGroups ==
    IF settings = None THEN {}
    ELSE { Groups(Get(settings))[k] : k \in 1..Len(Groups(Get(settings))) }

\* C13: once create_listeners has run, the health checks other than the
\* base "AMQP" one correspond one to one to the (integration, exchange)
\* pairs of the mapping: each pair has the entry AMQP_{integration}_{exchange},
\* it probes the AMQP system of that pair, and there are as many entries as
\* pairs.
C13_HealthchecksPerGroup ==
    build = "built" =>
        /\ \A g \in AllGroups :
            /\ HealthName(g) \in DOMAIN healthchecks
            /\ healthchecks[HealthName(g)]
                = amqpsystems[g.integration][g.upstream_exchange].id
        /\ DOMAIN healthchecks \ {"AMQP"} = { HealthName(g) : g \in AllGroups }
        /\ Cardinality(DOMAIN healthchecks \ {"AMQP"}) = Cardinality(AllGroups)

\* C14: an application is returned only when the AMQP system of every group
\* of the mapping has been constructed and given a lifespan manager; when a
\* construction has failed no application is returned, then or later.
C14_FailFast ==
    /\ [](app # None =>
            /\ build = "built"
            /\ visited = Len(Groups(Get(settings)))
            /\ Len(lifespan_managers) = Len(Groups(Get(settings)))
            /\ \A g \in AllGroups :
                /\ g.integration \in DOMAIN amqpsystems
                /\ g.upstream_exchange \in DOMAIN amqpsystems[g.integration]
                /\ \E k \in 1..Len(lifespan_managers) :
                    lifespan_managers[k].manager
                        = amqpsystems[g.integration][g.upstream_exchange].id)
    /\ [](build = "failed" => app = None)
    /\ [][build = "failed" => build' = "failed" /\ app' = None]_vars

\* The construction of the second of two groups has failed after the first
\* was constructed, and no application exists.
C14_Witness ==
    /\ build = "failed"
    /\ visited = 1
    /\ Len(Groups(Get(settings))) = 2
    /\ Len(lifespan_managers) = 1
    /\ app = None

\* The endpoint at the place of a registration in the queue lists of the
\* mapping.
EndpointAt(h) ==
    LET g == CHOOSE g \in AllGroups :
                /\ g.integration = h.integration
                /\ g.upstream_exchange = h.upstream_exchange
    IN  g.queues[h.index]

\* C15: for every endpoint e of a queue list the AMQP system of the group
\* has, at e's place, a registration under e.routing_key whose callable is
\* bound to e; every task started through that registration dispatches to
\* e and POSTs the body of the delivered message to e.url with
\* X-Routing-Key = e.routing_key.
C15_HandlerBoundToEndpoint ==
    /\ build = "built" =>
        \A g \in AllGroups :
            LET router == amqpsystems[g.integration][g.upstream_exchange].router
            IN  /\ Len(router) = Len(g.queues)
                /\ \A k \in 1..Len(g.queues) :
                    /\ router[k].routing_key = g.queues[k].routing_key
                    /\ router[k].callable.args = g.queues[k]
    /\ \A t \in Tasks :
        handler[t] # None =>
            LET e == EndpointAt(Get(handler[t]))
            IN  /\ endpoint[t] = Some(e)
                /\ message[t] = Some(Get(handler[t]).delivered)
                /\ t \in Posted =>
                    /\ Len(requests[t]) = 1
                    /\ RequestOf(t).url = e.url
                    /\ RequestOf(t).content = Get(handler[t]).delivered.body
                    /\ SentHeaders(t)["X-Routing-Key"] = e.routing_key

\* The first of two different endpoints of one queue list has received a
\* message and posted it.
C15_Witness ==
    \E t \in Posted :
        /\ handler[t] # None
        /\ Get(handler[t]).index = 1
        /\ LET g == CHOOSE g \in AllGroups :
                        /\ g.integration = Get(handler[t]).integration
                        /\ g.upstream_exchange = Get(handler[t]).upstream_exchange
           IN  /\ Len(g.queues) = 2
               /\ g.queues[1] # g.queues[2]
               /\ g.queues[1].url # g.queues[2].url
               /\ g.queues[1].routing_key # g.queues[2].routing_key
               /\ RequestOf(t).url = g.queues[1].url

\* The states of a dispatch attempt: "sleeping" is the part of Dispatching
\* spent in asyncio.sleep.
Received == { t \in Tasks : pc[t] = "received" }
Dispatching == { t \in Tasks : pc[t] \in {"dispatching", "sleeping"} }
Acked == { t \in Done : outcome[t] = Some(Ack) }
Requeued == { t \in Done : outcome[t] # None /\ Get(outcome[t]).kind = "RequeueMessage" }
Rejected == { t \in Done : outcome[t] # None /\ Get(outcome[t]).kind = "RejectMessage" }

C17_SleepBlocksOnlySleeper ==
    \A t \in Sleeping :
        \A u \in Tasks \ {t} :
            /\ u \in Received => ENABLED Post(u)
            /\ pc[u] = "dispatching" =>
                \A status_code \in SampleCodes : ENABLED Respond(u, status_code)
            /\ (pc[u] = "sleeping" /\ slept[u] >= SleepOf(u)) => ENABLED Wake(u)

\* A dispatch is still asleep; another one, answered after the first fell
\* asleep, has slept its own 30 time units and raised its requeue.
C17_Witness ==
    \E t \in Sleeping :
        \E u \in Done :
            /\ outcome[u] = Some(Requeue("Was going too fast"))
            /\ slept[u] >= SLEEP_SECONDS
            /\ slept[u] < slept[t]

====
